---------------------------- MODULE Spec2Model ----------------------------
(***************************************************************************)
(* The Rux OS shell (userspace/cshell/src/shell.c): the read-eval loop of  *)
(* main, execute_command (tokenizer, built-in dispatch, path resolution),  *)
(* cmd_ls, cmd_cat and run_external (fork / execve / waitpid).             *)
(*                                                                         *)
(* Characters are one-character strings; a C string is the sequence of its *)
(* characters without the terminator.  Text sent to standard output is a   *)
(* sequence of items: a literal piece of a format string is one item, the  *)
(* expansion of %s, %c or %d is one item per character, a newline is       *)
(* always the item NL.                                                     *)
(***************************************************************************)
EXTENDS Integers, Sequences, FiniteSets, TLC

(***************************************************************************)
(* Program constants.                                                      *)
(***************************************************************************)
MAX_CMD_LEN == 256
MAX_ARGS == 16
PATH_SIZE == 256
CAT_BUF_SIZE == 512

(***************************************************************************)
(* Bounds of the model.                                                    *)
(***************************************************************************)
\* lines of a session stream
MaxLines == 2
\* tokens of a line of the tokenizer family
MaxTok == 17
\* bytes of the large file /g
BigLen == 513

SP == " "
TAB == "\t"
NL == "\n"
\* the string terminator, as a byte of a buffer
NUL == "NUL"
\* an uninitialized byte that happens not to be zero
JUNK == "JUNK"

Min(a, b) == IF a < b THEN a ELSE b

\* s without its first n elements
Drop(s, n) == SubSeq(s, n + 1, Len(s))

RECURSIVE Concat(_)
Concat(ss) == IF ss = <<>> THEN <<>> ELSE Head(ss) \o Concat(Tail(ss))

(***************************************************************************)
(* printf's %d, for the small non-negative numbers the shell prints.       *)
(***************************************************************************)
Digit(d) == <<"0", "1", "2", "3", "4", "5", "6", "7", "8", "9">>[d + 1]

RECURSIVE Dec(_)
Dec(n) == IF n < 10 THEN <<Digit(n)>> ELSE Dec(n \div 10) \o <<Digit(n % 10)>>

\* printf's %06ld
Dec06(n) == LET d == Dec(n) IN [i \in 1..(6 - Len(d)) |-> "0"] \o d

(***************************************************************************)
(* The names execute_command compares args[0] with.                        *)
(***************************************************************************)
S_echo == <<"e", "c", "h", "o">>
S_help == <<"h", "e", "l", "p">>
S_exit == <<"e", "x", "i", "t">>
S_quit == <<"q", "u", "i", "t">>
S_time == <<"t", "i", "m", "e">>
S_pid == <<"p", "i", "d">>
S_ls == <<"l", "s">>
S_cat == <<"c", "a", "t">>
S_bin == <<"/", "b", "i", "n", "/">>

(***************************************************************************)
(* main: fgets(cmd, sizeof(cmd), stdin) takes at most MAX_CMD_LEN - 1      *)
(* characters and stops after a newline.  FgetsLen is the number taken     *)
(* from a non-empty stream s.                                              *)
(***************************************************************************)
FgetsLen(s) ==
    LET lim == Min(Len(s), MAX_CMD_LEN - 1)
        nls == {i \in 1..lim : s[i] = NL}
    IN  IF nls = {} THEN lim
        ELSE CHOOSE i \in nls : \A j \in nls : i <= j

\* the last character dropped whatever it is
StripLast(c) == SubSeq(c, 1, Len(c) - 1)

\* main: if (len > 0 && cmd[len - 1] == '\n') cmd[len - 1] = '\0'
StripNewline(c) ==
    IF Len(c) > 0 /\ c[Len(c)] = NL THEN SubSeq(c, 1, Len(c) - 1) ELSE c

(***************************************************************************)
(* execute_command, the tokenizer.                                         *)
(***************************************************************************)
\* while (*cmd == ' ' || *cmd == '\t') cmd++ : the index of the first
\* character at or after i that is neither, Len(s) + 1 when there is none
SkipBlanks(s, i) ==
    CHOOSE j \in i..(Len(s) + 1) :
        /\ \A k \in i..(j - 1) : s[k] \in {SP, TAB}
        /\ j = Len(s) + 1 \/ s[j] \notin {SP, TAB}

StrtokDelims == {SP, TAB, NL}

\* strtok: skip delimiters from pos; at the end of the string the result is
\* NULL; otherwise the token runs to the next delimiter (overwritten with the
\* terminator) or to the end, and the scan resumes after it
Strtok(s, pos) ==
    LET b == CHOOSE j \in pos..(Len(s) + 1) :
                 /\ \A k \in pos..(j - 1) : s[k] \in StrtokDelims
                 /\ j = Len(s) + 1 \/ s[j] \notin StrtokDelims
    IN  IF b > Len(s)
        THEN [isnull |-> TRUE, tok |-> <<>>, next |-> b]
        ELSE LET e == CHOOSE j \in b..(Len(s) + 1) :
                          /\ \A k \in b..(j - 1) : s[k] \notin StrtokDelims
                          /\ j = Len(s) + 1 \/ s[j] \in StrtokDelims
             IN  [isnull |-> FALSE, tok |-> SubSeq(s, b, e - 1),
                  next |-> Min(e + 1, Len(s) + 1)]

\* a slot of char *args[MAX_ARGS]: a token, NULL, or never written (junk)
TokSlot(t) == [k |-> "tok", s |-> t]
NullSlot == [k |-> "null", s |-> <<>>]
JunkSlot == [k |-> "junk", s |-> <<>>]
\* what an uninitialized slot may hold
UninitSlots == {NullSlot, JunkSlot}

\* args[i] = v; a write outside the array is recorded in oob
Store(st, i, v) ==
    IF i \in 0..(MAX_ARGS - 1)
    THEN [st EXCEPT !.args = [@ EXCEPT ![i] = v]]
    ELSE [st EXCEPT !.oob = TRUE]

\* the bound without the slot kept for the sentinel
TokGuardNoSentinel(argc_) == argc_ < MAX_ARGS

\* the while condition's bound: argc < MAX_ARGS - 1
TokGuard(argc_) == argc_ < MAX_ARGS - 1

\* while (token != NULL && argc < MAX_ARGS - 1) {
\*     args[argc++] = token; token = strtok(NULL, " \t\n"); }
RECURSIVE TokLoop(_, _, _)
TokLoop(s, t, st) ==
    IF ~t.isnull /\ TokGuard(st.argc)
    THEN TokLoop(s, Strtok(s, t.next),
                 [Store(st, st.argc, TokSlot(t.tok)) EXCEPT !.argc = @ + 1])
    ELSE st

\* execute_command up to "if (argc == 0) return": early is the return at
\* "if (*cmd == '\0') return", before the vector is touched.  u is what the
\* fresh stack frame's slots hold.
Tokenize(c, u) ==
    LET fresh == [args |-> [i \in 0..(MAX_ARGS - 1) |-> u], argc |-> 0,
                  oob |-> FALSE, early |-> FALSE]
        b == SkipBlanks(c, 1)
    IN  IF b > Len(c)
        THEN [fresh EXCEPT !.early = TRUE]
        ELSE LET s == Drop(c, b - 1)
                 st == TokLoop(s, Strtok(s, 1), fresh)
             IN  Store(st, st.argc, NullSlot)

(***************************************************************************)
(* execute_command, the built-in dispatch: the strcmp chain in its order.  *)
(***************************************************************************)
IsPrefix(p, s) == Len(p) <= Len(s) /\ SubSeq(s, 1, Len(p)) = p

\* strncmp(a, b, strlen(b)) == 0
StrEqPrefix(a, b) == IsPrefix(b, a)

\* strcmp(a, b) == 0
StrEq(a, b) == a = b

Dispatch(a0) ==
    IF StrEq(a0, S_echo) THEN "echo"
    ELSE IF StrEq(a0, S_help) THEN "help"
    ELSE IF StrEq(a0, S_exit) \/ StrEq(a0, S_quit) THEN "exit"
    ELSE IF StrEq(a0, S_time) THEN "time"
    ELSE IF StrEq(a0, S_pid) THEN "pid"
    ELSE IF StrEq(a0, S_ls) THEN "ls"
    ELSE IF StrEq(a0, S_cat) THEN "cat"
    ELSE "external"

(***************************************************************************)
(* execute_command, the path resolution into char path[256].               *)
(***************************************************************************)
\* strncpy(dst, src, n): n bytes are written, the source and then zeros
Strncpy(dst, src, n) ==
    [i \in 1..Len(dst) |->
        IF i > n THEN dst[i] ELSE IF i <= Len(src) THEN src[i] ELSE NUL]

\* snprintf(dst, size, "%s%s", ...) of the text s: at most size - 1
\* characters and the terminator
Snprintf(dst, size, s) ==
    LET n == Min(Len(s), size - 1)
    IN  [i \in 1..Len(dst) |->
            IF i <= n THEN s[i] ELSE IF i = n + 1 THEN NUL ELSE dst[i]]

\* the resolution with "/bin" for the search directory prefix
ResolvePathNoSlash(a0, u) ==
    IF a0[1] = "/" \/ a0[1] = "."
    THEN Strncpy([i \in 1..PATH_SIZE |-> u], a0, PATH_SIZE - 1)
    ELSE Snprintf([i \in 1..PATH_SIZE |-> u], PATH_SIZE, <<"/", "b", "i", "n">> \o a0)

\* u is what the uninitialized bytes of path hold
ResolvePath(a0, u) ==
    IF a0[1] = "/" \/ a0[1] = "."
    THEN Strncpy([i \in 1..PATH_SIZE |-> u], a0, PATH_SIZE - 1)
    ELSE Snprintf([i \in 1..PATH_SIZE |-> u], PATH_SIZE, S_bin \o a0)

\* whether the buffer holds a terminator
Terminated(b) == \E i \in 1..Len(b) : b[i] = NUL

\* the C string a buffer holds: the bytes before its first terminator (the
\* whole buffer when it holds none, and the reader then runs past its end)
CStr(b) ==
    IF Terminated(b)
    THEN LET z == CHOOSE i \in 1..Len(b) :
                      b[i] = NUL /\ \A j \in 1..(i - 1) : b[j] # NUL
         IN  SubSeq(b, 1, z - 1)
    ELSE b


(***************************************************************************)
(* The environment: the files and directories open and opendir find, and   *)
(* the input streams the shell is run on.                                  *)
(***************************************************************************)
\* the bytes of the large file: position i holds the i-th letter of a
\* period-7 pattern
BigByte(i) == <<"a", "b", "c", "d", "e", "f", "g">>[(i % 7) + 1]

FileExists(p) == p \in {<<"f">>, <<"e">>, <<"g">>}

FileData(p) ==
    IF p = <<"f">> THEN <<"x", "y", "z">>
    ELSE IF p = <<"g">> THEN [i \in 1..BigLen |-> BigByte(i)]
    ELSE <<>>

DirExists(p) == p \in {<<".">>, <<"d">>}

DirEntries(p) ==
    IF p = <<".">>
    THEN << [d_name |-> <<".">>, d_type |-> "DT_DIR"],
            [d_name |-> <<"f">>, d_type |-> "DT_REG"],
            [d_name |-> <<"t">>, d_type |-> "DT_WHT"] >>
    ELSE <<>>

\* the errno a failed call leaves: ENOENT for open and opendir, EIO for read
\* and write
Errno(call) == IF call = "open" THEN 2 ELSE 5

\* what gettimeofday may return
Times == {[tv_sec |-> 0, tv_usec |-> 7], [tv_sec |-> 1234, tv_usec |-> 999999]}

ShellPid == 2
ShellPPid == 1

\* the lines sessions are made of
SessionLines ==
    { <<>>,
      S_echo \o <<SP, "a", SP, TAB, "b">>,
      S_exit,
      S_ls,
      S_cat \o <<SP, "f">>,
      S_cat \o <<SP, "n">>,
      <<"p", SP, "a">> }

\* further lines, each run as a stream of its own
SingleLines ==
    { <<SP, TAB>>,
      <<TAB>> \o S_echo,
      S_echo \o <<"x">>,
      <<"e", "c", "h">>,
      S_help,
      S_quit \o <<SP, "x">>,
      S_exit \o <<"s">>,
      S_time,
      S_pid,
      S_ls \o <<SP, "d">>,
      S_ls \o <<SP, "n">>,
      S_cat,
      S_cat \o <<SP, "e">>,
      S_cat \o <<SP, "g">>,
      <<".", "/", "p">>,
      <<"/", "b", "i", "n", "/", "p">> }

\* the streams of at most n newline-terminated lines of SessionLines
RECURSIVE StreamsOf(_)
StreamsOf(n) ==
    IF n = 0 THEN {<<>>}
    ELSE LET prev == StreamsOf(n - 1)
         IN  prev \cup {l \o <<NL>> \o s : l \in SessionLines, s \in prev}

\* the same stream with its last newline missing
NoFinalNewline(s) ==
    IF Len(s) > 0 /\ s[Len(s)] = NL THEN SubSeq(s, 1, Len(s) - 1) ELSE s

SessionStreams ==
    LET ss == StreamsOf(MaxLines) IN ss \cup {NoFinalNewline(s) : s \in ss}

\* the i-th word of a line of the tokenizer family
Word(i) ==
    LET c == <<"a", "b", "c", "d", "e", "f", "g", "h", "i", "j">>[(i % 10) + 1]
    IN  IF i % 2 = 0 THEN <<c>> ELSE <<c, c>>

\* n words, the first being first, sep between two words
RECURSIVE Words(_, _, _)
Words(first, n, sep) ==
    IF n = 0 THEN <<>>
    ELSE IF n = 1 THEN first
    ELSE Words(first, n - 1, sep) \o sep \o Word(n)

\* lines of up to MaxTok words: echo lines with blanks of every kind before,
\* between and after the words, and lines that name a program
TokLines ==
    { lead \o Words(S_echo, n, sep) \o trail :
        lead \in {<<>>, <<SP>>, <<TAB, SP>>},
        n \in 0..MaxTok,
        sep \in {<<SP>>, <<TAB>>, <<SP, TAB, SP>>},
        trail \in {<<>>, <<SP>>} }
    \cup {Words(<<"x">>, n, <<SP>>) : n \in 1..MaxTok}

\* a token of len characters that starts with c
LongTok(c, len) == [i \in 1..len |-> IF i = 1 THEN c ELSE "w"]

\* the lengths around the capacities of path and cmd
LongLens == (PATH_SIZE - 7)..(MAX_CMD_LEN + 1)

LongLines == {LongTok(c, n) : c \in {"/", ".", "p"}, n \in LongLens}

\* every special line with its newline, and the long ones also as a last
\* line without it
SpecialStreams ==
    {l \o <<NL>> : l \in SingleLines \cup TokLines \cup LongLines} \cup LongLines

Streams == SessionStreams \cup SpecialStreams

(***************************************************************************)
(* Standard output.  obuf is the stdio buffer of stdout, fdout what has    *)
(* reached file descriptor 1 since the last line was read.  The stream is  *)
(* line buffered (lbf) on a terminal and fully buffered otherwise; no      *)
(* iteration of the loop prints enough to fill the buffer.                 *)
(***************************************************************************)
VARIABLES pc, stdin, stdin_flag, midline, cont, cmd, args, argc, oob, ncmd,
          path, obuf, fdout, lbf, exit_status, children, pid, launches, forkfails, handles, fd, buf,
          bytes_read, bytes_written, catOut, ran, nfork, resolved

vars == <<pc, stdin, stdin_flag, midline, cont, cmd, args, argc, oob, ncmd,
          path, obuf, fdout, lbf, exit_status, children, pid, launches, forkfails, handles, fd, buf,
          bytes_read, bytes_written, catOut, ran, nfork, resolved>>

\* where the stream stands after the last fgets (inside a line or at the
\* start of one), and where it stood when the characters in cmd were taken
lineVars == <<midline, cont>>
outVars == <<obuf, fdout>>
procVars == <<children, pid, launches, forkfails>>
fileVars == <<handles, fd, buf, bytes_read, bytes_written, catOut>>
tokVars == <<args, argc, oob, ncmd>>
cmdVars == <<ran, nfork, resolved>>

\* the last index of a newline in text, 0 when it holds none
LastNL(text) ==
    LET nls == {i \in 1..Len(text) : text[i] = NL}
    IN  IF nls = {} THEN 0 ELSE CHOOSE i \in nls : \A j \in nls : j <= i

\* printf(text) on the stream o = [buf, fd]
Printf(o, text) ==
    LET b == o.buf \o text
        k == IF lbf /\ LastNL(text) > 0 THEN LastNL(b) ELSE 0
    IN  [buf |-> Drop(b, k), fd |-> o.fd \o SubSeq(b, 1, k)]

\* a flush that leaves the buffer as it is
FflushNothing(o) == o

\* fflush(stdout)
Fflush(o) == [buf |-> <<>>, fd |-> o.fd \o o.buf]

\* write(STDOUT_FILENO, bytes, n) that accepted all n bytes
WriteFd(o, bytes) == [buf |-> o.buf, fd |-> o.fd \o bytes]

Out == [buf |-> obuf, fd |-> fdout]

SetOut(o) == obuf' = o.buf /\ fdout' = o.fd

WelcomeText ==
    << NL,
       "========================================", NL,
       "  Rux OS Shell v0.3 (musl libc)", NL,
       "========================================", NL,
       "Type 'help' for available commands", NL,
       NL >>

HelpText ==
    << "Rux OS Shell v0.3", NL,
       "Available commands:", NL,
       "  echo <args>  - Print arguments", NL,
       "  help         - Show this help message", NL,
       "  ls [dir]     - List directory contents", NL,
       "  cat <file>   - Display file contents", NL,
       "  time         - Show current time", NL,
       "  pid          - Show process ID", NL,
       "  exit         - Exit the shell", NL,
       "  <program>    - Execute external program", NL,
       NL >>

PromptText == <<"rux> ">>

(***************************************************************************)
(* Init: main has called print_welcome and is at the top of while (1).     *)
(***************************************************************************)
Init ==
    /\ stdin \in Streams
    /\ lbf \in BOOLEAN
    /\ stdin_flag = "ok"
    /\ midline = FALSE
    /\ cont = FALSE
    /\ pc = "prompt"
    /\ cmd = <<>>
    /\ args = [i \in 0..(MAX_ARGS - 1) |-> JunkSlot]
    /\ argc = 0
    /\ oob = FALSE
    /\ ncmd = 0
    /\ path = <<>>
    /\ LET o == Printf([buf |-> <<>>, fd |-> <<>>], WelcomeText)
       IN  obuf = o.buf /\ fdout = o.fd
    /\ exit_status = -1
    /\ children = <<>>
    /\ pid = 0
    /\ launches = 0
    /\ forkfails = 0
    /\ handles = <<>>
    /\ fd = 0
    /\ buf = <<>>
    /\ bytes_read = 0
    /\ bytes_written = 0
    /\ catOut = <<>>
    /\ ran = <<>>
    /\ nfork = 0
    /\ resolved = FALSE

(***************************************************************************)
(* main, the read-eval loop.                                               *)
(***************************************************************************)
\* the flush put before the prompt
PromptOutFlushFirst(o) == Printf(Fflush(o), PromptText)

\* printf("rux> "); fflush(stdout);
PromptOut(o) == Fflush(Printf(o, PromptText))

Prompt ==
    /\ pc = "prompt"
    /\ SetOut(PromptOut(Out))
    /\ pc' = "read"
    /\ UNCHANGED <<stdin, stdin_flag, lineVars, cmd, tokVars, path, lbf,
                   exit_status, procVars, fileVars, cmdVars>>

\* main returning the status of the last child
MainReturnLastStatus ==
    IF children = <<>> THEN 0 ELSE children[Len(children)].status

\* main: return 0
MainReturn == 0

\* fgets returns NULL at the end of the input, and when the read fails (eof
\* tells which); the loop breaks, main returns and the exit flushes stdout.
\* Otherwise cmd holds the characters taken, without a final newline (cmd
\* keeps the line as read: the terminators strtok later writes over the
\* delimiters are not kept in it).
ReadLine ==
    /\ pc = "read"
    /\ \/ /\ stdin # <<>>
          /\ LET n == FgetsLen(stdin)
             IN  /\ cmd' = StripNewline(SubSeq(stdin, 1, n))
                 /\ stdin' = Drop(stdin, n)
                 /\ midline' = (stdin[n] # NL)
                 /\ cont' = midline
          /\ pc' = "exec"
          /\ obuf' = obuf
          /\ fdout' = <<>>
          /\ UNCHANGED <<stdin_flag, exit_status>>
       \/ /\ \E eof \in BOOLEAN :
                /\ eof => stdin = <<>>
                /\ stdin_flag' = IF eof THEN "eof" ELSE "err"
          /\ pc' = "terminated"
          /\ exit_status' = MainReturn
          /\ SetOut(Fflush(Out))
          /\ UNCHANGED <<stdin, cmd, lineVars>>
    /\ UNCHANGED <<tokVars, path, lbf, procVars, fileVars, cmdVars>>

(***************************************************************************)
(* execute_command: the branches of the dispatch.  Each is the code from   *)
(* its strcmp to its return.                                               *)
(***************************************************************************)
\* for (i = 1; i < argc; i++) { printf("%s", args[i]);
\*     if (i < argc - 1) printf(" "); }  printf("\n");
\* a loop that prints the space after every argument
EchoTextTrailingSpace(a, n) ==
    Concat([i \in 1..(n - 1) |-> a[i].s \o <<SP>>]) \o <<NL>>

EchoText(a, n) ==
    Concat([i \in 1..(n - 1) |->
               a[i].s \o (IF i < n - 1 THEN <<SP>> ELSE <<>>)]) \o <<NL>>

DoEcho(t) ==
    /\ SetOut(Printf(Out, EchoText(t.args, t.argc)))
    /\ pc' = "prompt"
    /\ UNCHANGED <<path, exit_status, procVars, fileVars>>
    /\ ran' = <<"echo">>
    /\ nfork' = 0
    /\ resolved' = FALSE

DoHelp ==
    /\ SetOut(Printf(Out, HelpText))
    /\ pc' = "prompt"
    /\ UNCHANGED <<path, exit_status, procVars, fileVars>>
    /\ ran' = <<"help">>
    /\ nfork' = 0
    /\ resolved' = FALSE

\* exit(0)
BuiltinExitCode == 0

\* printf("Goodbye!\n"); exit(0);
DoExit ==
    /\ SetOut(Fflush(Printf(Out, <<"Goodbye!", NL>>)))
    /\ pc' = "terminated"
    /\ exit_status' = BuiltinExitCode
    /\ UNCHANGED <<path, procVars, fileVars>>
    /\ ran' = <<"exit">>
    /\ nfork' = 0
    /\ resolved' = FALSE

DoTime ==
    /\ \E tv \in Times :
          SetOut(Printf(Out, <<"Current time: ">> \o Dec(tv.tv_sec) \o <<".">>
                             \o Dec06(tv.tv_usec)
                             \o <<" seconds since epoch", NL>>))
    /\ pc' = "prompt"
    /\ UNCHANGED <<path, exit_status, procVars, fileVars>>
    /\ ran' = <<"time">>
    /\ nfork' = 0
    /\ resolved' = FALSE

DoPid ==
    /\ SetOut(Printf(Printf(Out, <<"PID: ">> \o Dec(ShellPid) \o <<NL>>),
                     <<"PPID: ">> \o Dec(ShellPPid) \o <<NL>>))
    /\ pc' = "prompt"
    /\ UNCHANGED <<path, exit_status, procVars, fileVars>>
    /\ ran' = <<"pid">>
    /\ nfork' = 0
    /\ resolved' = FALSE

\* a handle open or opendir has returned: the file descriptor or DIR,
\* its position, and how often it has been closed
NewHandle(kind, name) == [kind |-> kind, name |-> name, pos |-> 0, closes |-> 0]

\* close(fd), closedir(dir)
Close(hs, f) == [hs EXCEPT ![f].closes = @ + 1]

\* printf("ls: cannot open directory '%s': %d\n", path, errno)
LsOpenError(dirname) ==
    <<"ls: cannot open directory '">> \o dirname \o <<"': ">>
        \o Dec(Errno("open")) \o <<NL>>

\* a message that leaves the file out
CatOpenErrorNoPath(filename) ==
    <<"cat: cannot open file: ">> \o Dec(Errno("open")) \o <<NL>>

\* printf("cat: cannot open '%s': %d\n", filename, errno)
CatOpenError(filename) ==
    <<"cat: cannot open '">> \o filename \o <<"': ">>
        \o Dec(Errno("open")) \o <<NL>>

\* cmd_ls up to the readdir loop
DoLs(t) ==
    LET dirname == IF t.argc > 1 THEN t.args[1].s ELSE <<".">>
    IN  /\ IF ~DirExists(dirname)
           THEN /\ SetOut(Printf(Out, LsOpenError(dirname)))
                /\ pc' = "prompt"
                /\ UNCHANGED <<handles, fd>>
           ELSE /\ handles' = Append(handles, NewHandle("dir", dirname))
                /\ fd' = Len(handles) + 1
                /\ SetOut(Printf(Out, <<"Contents of ">> \o dirname
                                      \o <<":", NL>>))
                /\ pc' = "ls"
        /\ ran' = <<"ls">>
        /\ nfork' = 0
        /\ resolved' = FALSE
        /\ UNCHANGED <<path, exit_status, procVars, buf, bytes_read,
                       bytes_written, catOut>>

\* cmd_cat up to the read loop
DoCat(t) ==
    /\ IF t.argc <= 1
       THEN /\ SetOut(Printf(Printf(Out, <<"cat: missing file operand", NL>>),
                             <<"Usage: cat <filename>", NL>>))
            /\ pc' = "prompt"
            /\ UNCHANGED <<handles, fd>>
       ELSE LET filename == t.args[1].s
            IN  IF ~FileExists(filename)
                THEN /\ SetOut(Printf(Out, CatOpenError(filename)))
                     /\ pc' = "prompt"
                     /\ UNCHANGED <<handles, fd>>
                ELSE /\ handles' = Append(handles, NewHandle("file", filename))
                     /\ fd' = Len(handles) + 1
                     /\ pc' = "cat_read"
                     /\ UNCHANGED outVars
    /\ catOut' = <<>>
    /\ ran' = <<"cat">>
    /\ nfork' = 0
    /\ resolved' = FALSE
    /\ UNCHANGED <<path, exit_status, procVars, buf, bytes_read,
                   bytes_written>>

(***************************************************************************)
(* run_external.                                                           *)
(***************************************************************************)
\* the process fork creates: a copy of the shell in the child branch of
\* run_external, with the shell's stdio buffer and its path
NewChild(p) ==
    [st |-> "forked", status |-> -1, obuf |-> obuf, out |-> <<>>,
     waits |-> 0, path |-> p, execfail |-> FALSE]

\* a shell that ends when fork fails
ForkFailExit == "terminated"

\* after "fork failed": return -1, and execute_command returns
ForkFailNext == "prompt"

\* a parent branch that returns without the wait
AfterForkNoWait == "prompt"

\* the parent branch: waitpid(pid, &status, 0)
AfterFork == "waitpid"

\* a launcher that reports nothing
ForkFailSilent == <<>>

\* printf("fork failed\n")
ForkFailText == <<"fork failed", NL>>

\* path resolution and run_external up to the fork
DoExternal(t) ==
    /\ \E u \in {NUL, JUNK} : path' = ResolvePath(t.args[0].s, u)
    /\ resolved' = TRUE
    /\ ran' = <<>>
    /\ launches' = launches + 1
    /\ nfork' = 1
    /\ \/ /\ pid' = -1
          /\ forkfails' = forkfails + 1
          /\ SetOut(Printf(Out, ForkFailText))
          /\ pc' = ForkFailNext
          /\ UNCHANGED <<children, exit_status>>
       \/ /\ children' = Append(children, NewChild(path'))
          /\ pid' = Len(children) + 1
          /\ pc' = AfterFork
          /\ UNCHANGED <<outVars, exit_status, forkfails>>
    /\ UNCHANGED fileVars

execute_command ==
    /\ pc = "exec"
    /\ \E u \in UninitSlots :
          LET t == Tokenize(cmd, u)
          IN  /\ args' = t.args
              /\ argc' = t.argc
              /\ oob' = (oob \/ t.oob)
              /\ ncmd' = ncmd + 1
              /\ IF t.early \/ t.argc = 0
                 THEN /\ pc' = "prompt"
                      /\ ran' = <<>>
                      /\ nfork' = 0
                      /\ resolved' = FALSE
                      /\ UNCHANGED <<path, outVars, exit_status, procVars,
                                     fileVars>>
                 ELSE LET h == Dispatch(t.args[0].s)
                      IN  CASE h = "echo" -> DoEcho(t)
                            [] h = "help" -> DoHelp
                            [] h = "exit" -> DoExit
                            [] h = "time" -> DoTime
                            [] h = "pid" -> DoPid
                            [] h = "ls" -> DoLs(t)
                            [] h = "cat" -> DoCat(t)
                            [] OTHER -> DoExternal(t)
    /\ UNCHANGED <<stdin, stdin_flag, lineVars, cmd, lbf>>

(***************************************************************************)
(* cmd_ls, the readdir loop.                                               *)
(***************************************************************************)
\* switch (entry->d_type)
TypeChar(d_type) ==
    CASE d_type = "DT_DIR" -> "d"
      [] d_type = "DT_REG" -> "-"
      [] d_type = "DT_LNK" -> "l"
      [] d_type = "DT_BLK" -> "b"
      [] d_type = "DT_CHR" -> "c"
      [] d_type = "DT_FIFO" -> "p"
      [] d_type = "DT_SOCK" -> "s"
      [] OTHER -> "?"

\* one readdir: an entry is printed, or readdir returns NULL (at the end of
\* the directory, or on an error) and closedir(dir) ends cmd_ls
LsReaddir ==
    /\ pc = "ls"
    /\ LET h == handles[fd]
           es == DirEntries(h.name)
       IN  \/ /\ h.pos < Len(es)
              /\ LET entry == es[h.pos + 1]
                 IN  SetOut(Printf(Out, <<"  ", TypeChar(entry.d_type), " ">>
                                        \o entry.d_name \o <<NL>>))
              /\ handles' = [handles EXCEPT ![fd].pos = @ + 1]
              /\ pc' = "ls"
           \/ /\ \E failed \in BOOLEAN : ~failed => h.pos = Len(es)
              /\ handles' = Close(handles, fd)
              /\ pc' = "prompt"
              /\ UNCHANGED outVars
    /\ UNCHANGED <<stdin, stdin_flag, lineVars, cmd, tokVars, path, lbf,
                   exit_status, procVars, fd, buf, bytes_read, bytes_written, catOut,
                   cmdVars>>

(***************************************************************************)
(* cmd_cat, the read loop and the write loop.                              *)
(***************************************************************************)
\* what read(fd, buf, sizeof(buf)) may return with rem bytes left in the
\* file: an error, the end of the file, a full read, a short read
ReadReturns(rem) ==
    IF rem = 0 THEN {-1, 0}
    ELSE LET full == Min(rem, CAT_BUF_SIZE) IN {-1, full, (full + 1) \div 2}

\* what write(STDOUT_FILENO, p, rem) may return: an error, all rem bytes,
\* or a part of them (either half; for the three bytes of f that is every
\* count).  The loop calls it with rem > 0 only, and a blocking write that
\* succeeds has then accepted at least one byte.
WriteReturns(rem) == {-1, rem, (rem + 1) \div 2, rem \div 2} \ {0}

\* the n bytes at buf
WriteSrcFromStart(b, written, n) == SubSeq(b, 1, n)

\* the n bytes at buf + bytes_written
WriteSrc(b, written, n) == SubSeq(b, written + 1, written + n)

\* a write error path that returns with fd open
WriteErrNoClose(hs, f) == hs

\* the write error path: close(fd); return;
WriteErrClose(hs, f) == Close(hs, f)

\* a count set to what the last write accepted
AdvanceAssign(written, n) == n

\* bytes_written += n
Advance(written, n) == written + n

\* while ((bytes_read = read(fd, buf, sizeof(buf))) > 0): one read, and
\* when it returns no bytes the code after the loop
CatRead ==
    /\ pc = "cat_read"
    /\ LET h == handles[fd]
           data == FileData(h.name)
       IN  \E n \in ReadReturns(Len(data) - h.pos) :
              /\ bytes_read' = n
              /\ IF n > 0
                 THEN /\ buf' = SubSeq(data, h.pos + 1, h.pos + n)
                      /\ handles' = [handles EXCEPT ![fd].pos = @ + n]
                      /\ bytes_written' = 0
                      /\ pc' = "cat_write"
                      /\ UNCHANGED outVars
                 ELSE /\ IF n < 0
                         THEN SetOut(Printf(Out, <<NL, "cat: read error: ">>
                                                 \o Dec(Errno("read")) \o <<NL>>))
                         ELSE UNCHANGED outVars
                      /\ handles' = Close(handles, fd)
                      /\ pc' = "prompt"
                      /\ UNCHANGED <<buf, bytes_written>>
    /\ UNCHANGED <<stdin, stdin_flag, lineVars, cmd, tokVars, path, lbf,
                   exit_status, procVars, fd, catOut, cmdVars>>

\* while (bytes_written < bytes_read): one write
CatWrite ==
    /\ pc = "cat_write"
    /\ bytes_written < bytes_read
    /\ \E n \in WriteReturns(bytes_read - bytes_written) :
          IF n < 0
          THEN /\ SetOut(Printf(Out, <<NL, "cat: write error: ">>
                                     \o Dec(Errno("write")) \o <<NL>>))
               /\ handles' = WriteErrClose(handles, fd)
               /\ pc' = "prompt"
               /\ UNCHANGED <<bytes_written, catOut>>
          ELSE /\ SetOut(WriteFd(Out, WriteSrc(buf, bytes_written, n)))
               /\ catOut' = catOut \o WriteSrc(buf, bytes_written, n)
               /\ bytes_written' = Advance(bytes_written, n)
               /\ pc' = IF Advance(bytes_written, n) < bytes_read
                        THEN "cat_write" ELSE "cat_read"
               /\ UNCHANGED handles
    /\ UNCHANGED <<stdin, stdin_flag, lineVars, cmd, tokVars, path, lbf,
                   exit_status, procVars, fd, buf, bytes_read, cmdVars>>

(***************************************************************************)
(* run_external after the fork: the child branch, and the parent's wait.   *)
(***************************************************************************)
\* what printf("%s", path) prints: the string, and whatever follows the
\* buffer when it holds no terminator
PathText(b) == IF Terminated(b) THEN CStr(b) ELSE b \o <<JUNK>>

\* printf("execve failed: %s\n", path) in the child
ChildPrintf(c) ==
    [c EXCEPT !.obuf = @ \o <<"execve failed: ">> \o PathText(c.path) \o <<NL>>]

\* a child that returns from run_external
ChildReturns(c) == [c EXCEPT !.st = "returned"]

\* exit(1) in the child: the stdio buffer is flushed and the child is a
\* zombie until it is waited for
ChildExitFailure(c) ==
    [c EXCEPT !.st = "zombie", !.status = 1, !.out = @ \o c.obuf, !.obuf = <<>>]

\* execve(path, argv, NULL) in child p: the image is replaced, or execve
\* returns and the child prints the failure and exits
ChildExecve(p) ==
    /\ children[p].st = "forked"
    /\ \E ok \in BOOLEAN :
          children' =
             [children EXCEPT ![p] =
                IF ok THEN [@ EXCEPT !.st = "image"]
                ELSE ChildExitFailure(ChildPrintf([@ EXCEPT !.execfail = TRUE]))]
    /\ UNCHANGED <<pc, stdin, stdin_flag, lineVars, cmd, tokVars, path, outVars,
                   lbf, exit_status, pid, launches, forkfails, fileVars, cmdVars>>

\* the statuses a launched program may exit with
ExitStatuses == {0, 1}

\* the program the child became terminates
ChildExit(p) ==
    /\ children[p].st = "image"
    /\ \E s \in ExitStatuses :
          children' = [children EXCEPT ![p].st = "zombie", ![p].status = s]
    /\ UNCHANGED <<pc, stdin, stdin_flag, lineVars, cmd, tokVars, path, outVars,
                   lbf, exit_status, pid, launches, forkfails, fileVars, cmdVars>>

\* a wait that does not block (WNOHANG)
WaitNoHang(c) == TRUE

\* a wait that returns only for a child that exited with status 0
WaitOnlySuccess(c) == c.st = "zombie" /\ c.status = 0

\* waitpid(pid, &status, 0) returns once the child has terminated
WaitReady(c) == c.st = "zombie"

\* the parent branch of run_external: the wait reaps child pid; return 0
Waitpid ==
    /\ pc = "waitpid"
    /\ WaitReady(children[pid])
    /\ children' = [children EXCEPT ![pid] =
                       IF @.st = "zombie"
                       THEN [@ EXCEPT !.st = "reaped", !.waits = @ + 1]
                       ELSE @]
    /\ pc' = "prompt"
    /\ UNCHANGED <<stdin, stdin_flag, lineVars, cmd, tokVars, path, outVars,
                   lbf, exit_status, pid, launches, forkfails, fileVars, cmdVars>>

Next ==
    \/ Prompt
    \/ ReadLine
    \/ execute_command
    \/ LsReaddir
    \/ CatRead
    \/ CatWrite
    \/ Waitpid
    \/ \E p \in 1..Len(children) : ChildExecve(p) \/ ChildExit(p)

Spec == Init /\ [][Next]_vars

\* The shell is a process the system keeps running: a waitpid whose child
\* has terminated returns, the loop goes on to print the prompt, and every
\* read and write cmd_cat makes returns.  Nothing is assumed of the children
\* or of the input.
FairSpec ==
    /\ Spec
    /\ WF_vars(Waitpid)
    /\ WF_vars(Prompt)
    /\ WF_vars(CatRead)
    /\ WF_vars(CatWrite)

(***************************************************************************)
(* The properties.  The whitespace-delimited tokens of a line are stated   *)
(* here on their own, as the maximal runs of characters other than space,  *)
(* tab and newline, in the order of their first characters.                *)
(***************************************************************************)
IsBlank(c) == c \in {SP, TAB, NL}

TokStarts(s) ==
    {i \in 1..Len(s) : ~IsBlank(s[i]) /\ (i = 1 \/ IsBlank(s[i - 1]))}

\* the token that starts at i ends before the first blank after i
TokEndAt(s, i) ==
    LET ends == {j \in i..Len(s) : j = Len(s) \/ IsBlank(s[j + 1])}
    IN  CHOOSE j \in ends : \A k \in ends : j <= k

WSTokens(s) ==
    LET st == TokStarts(s)
        nth(k) == CHOOSE i \in st : Cardinality({j \in st : j < i}) = k - 1
    IN  [k \in 1..Cardinality(st) |-> SubSeq(s, nth(k), TokEndAt(s, nth(k)))]

\* text ends with tail
EndsWith(text, tail) ==
    /\ Len(tail) <= Len(text)
    /\ SubSeq(text, Len(text) - Len(tail) + 1, Len(text)) = tail

\* the line in cmd has been through execute_command
Executed == ncmd > 0 /\ pc # "exec"

\* the children that have not been waited for
Unreclaimed == {p \in 1..Len(children) : children[p].st # "reaped"}

\* the text printed and not yet passed on, after the text that has
Printed == fdout \o obuf

BuiltinNames ==
    {S_echo, S_help, S_exit, S_quit, S_time, S_pid, S_ls, S_cat}

\* C1, as stated: after any sequence of external commands every command has
\* created exactly one child, and each child has been waited for exactly once
\* when the launcher has returned (none while the launcher waits for it).
C1_AsStated ==
    /\ Len(children) = launches
    /\ \A p \in 1..Len(children) :
          /\ children[p].waits = (IF pc = "waitpid" /\ p = pid THEN 0 ELSE 1)
          /\ children[p].st = "reaped" <=> children[p].waits = 1

\* C1, amended: every external command whose fork succeeds creates exactly
\* one child and waits for that child exactly once before run_external
\* returns; a command whose fork fails creates no child and waits for none.
\* No child is left unwaited after the return, none is waited for twice.
C1_WaitedOnce ==
    /\ Len(children) = launches - forkfails
    /\ \A p \in 1..Len(children) :
          /\ children[p].waits = (IF pc = "waitpid" /\ p = pid THEN 0 ELSE 1)
          /\ children[p].st = "reaped" <=> children[p].waits = 1

C1_Witness ==
    /\ pc = "prompt"
    /\ launches = 2
    /\ Len(children) = 2
    /\ children[2].st = "reaped"

\* C2: at most one child of the shell is running or unreclaimed, and none is
\* when the shell prints a prompt, reads a line or starts a command.
C2_OneInFlight ==
    /\ Cardinality(Unreclaimed) <= 1
    /\ pc \in {"prompt", "read", "exec"} => Unreclaimed = {}

C2_Witness ==
    /\ pc = "exec"
    /\ Len(children) = 1
    /\ children[1].st = "reaped"

\* C3: a child whose execve failed has printed the failure message with the
\* path and has terminated with a non-zero status; no child ever returns from
\* run_external into the read-eval loop.
C3_ChildNeverReturns ==
    \A p \in 1..Len(children) :
       LET c == children[p]
       IN  /\ c.st \in {"forked", "image", "zombie", "reaped"}
           /\ c.execfail =>
                 /\ c.st \in {"zombie", "reaped"}
                 /\ c.status # 0
                 /\ EndsWith(c.out, <<"execve failed: ">> \o PathText(c.path)
                                          \o <<NL>>)

C3_Witness ==
    /\ Len(children) = 1
    /\ children[1].execfail
    /\ children[1].st = "zombie"
    /\ pc = "waitpid"

\* the line in cmd asks for the end of the shell
ExitLine(c) ==
    LET toks == WSTokens(c)
    IN  toks # <<>> /\ toks[1] \in {S_exit, S_quit}

C5_ExitStatusZero ==
    (pc = "terminated") <=> (exit_status = 0)

C5_Witness ==
    /\ pc = "terminated"
    /\ stdin_flag = "eof"
    /\ forkfails = 1
    /\ Len(children) = 1
    /\ children[1].status = 1

\* the handler the spec's registry gives a built-in name
RegistryHandler(name) ==
    CASE name = S_echo -> "echo"
      [] name = S_help -> "help"
      [] name \in {S_exit, S_quit} -> "exit"
      [] name = S_time -> "time"
      [] name = S_pid -> "pid"
      [] name = S_ls -> "ls"
      [] name = S_cat -> "cat"

\* C6: for a line whose first token is the name of a built-in, exactly that
\* built-in's handler has run, no path has been resolved and no fork has been
\* attempted; for any other first token no handler has run and exactly one
\* fork has been attempted.
C6_DispatchExact ==
    Executed =>
       LET toks == WSTokens(cmd)
       IN  toks # <<>> =>
              IF toks[1] \in BuiltinNames
              THEN /\ ran = <<RegistryHandler(toks[1])>>
                   /\ ~resolved
                   /\ nfork = 0
              ELSE /\ ran = <<>>
                   /\ resolved
                   /\ nfork = 1

C6_Witness ==
    /\ Executed
    /\ cmd = S_echo \o <<"x">>
    /\ nfork = 1
    /\ ran = <<>>

\* the vector holds the first n of toks and then the null sentinel
HoldsTokens(toks, n) ==
    /\ argc = n
    /\ \A i \in 1..n : args[i - 1] = TokSlot(toks[i])
    /\ args[n] = NullSlot
    /\ ~oob

\* C7, as stated: for every line the vector holds the first 15 tokens of the
\* line (all of them when there are at most 15) in their order, followed by
\* the null sentinel, and no slot beyond index 15 is written.
C7_AsStated ==
    Executed =>
       LET toks == WSTokens(cmd)
       IN  HoldsTokens(toks, Min(Len(toks), MAX_ARGS - 1))

\* C7, amended: the same for every line that holds a token; for a line
\* without one (empty, or blanks only) execute_command returns before it
\* writes the vector: no token is stored and no slot is written.
C7_Tokens ==
    Executed =>
       LET toks == WSTokens(cmd)
       IN  IF toks # <<>>
           THEN HoldsTokens(toks, Min(Len(toks), MAX_ARGS - 1))
           ELSE /\ argc = 0
                /\ ~oob
                /\ \E u \in UninitSlots : \A i \in 0..(MAX_ARGS - 1) : args[i] = u

C7_Witness ==
    /\ Executed
    /\ Len(WSTokens(cmd)) = MAX_ARGS + 1
    /\ argc = MAX_ARGS - 1
    /\ args[MAX_ARGS - 1] = NullSlot

\* the path the spec's resolver gives a first token
SpecPath(a0) == IF a0[1] \in {"/", "."} THEN a0 ELSE S_bin \o a0

\* C8, as stated: the path handed to execve is the token itself when it
\* begins with '/' or '.', and "/bin/" followed by the whole token otherwise.
C8_AsStated ==
    (Executed /\ resolved) =>
       /\ Terminated(path)
       /\ CStr(path) = SpecPath(WSTokens(cmd)[1])

\* C8, amended: a token that begins with '/' or '.' is copied to the path
\* buffer, and is the path handed to execve when it has at most 254
\* characters (one of 255 fills the 255 bytes copied and gets no terminator);
\* for any other token the path is the first 255 characters of "/bin/"
\* followed by the token, the whole of it when the token has at most 250.
C8_ResolvedPath ==
    (Executed /\ resolved) =>
       LET a0 == WSTokens(cmd)[1]
       IN  IF a0[1] \in {"/", "."}
           THEN /\ SubSeq(path, 1, Len(a0)) = a0
                /\ Len(a0) <= PATH_SIZE - 2 =>
                      Terminated(path) /\ CStr(path) = a0
                /\ Len(a0) = PATH_SIZE - 1 =>
                      path[PATH_SIZE] \in {NUL, JUNK}
           ELSE /\ Terminated(path)
                /\ CStr(path) = SubSeq(S_bin \o a0, 1,
                                       Min(Len(a0) + Len(S_bin), PATH_SIZE - 1))
                /\ Len(a0) <= PATH_SIZE - 1 - Len(S_bin) =>
                      CStr(path) = S_bin \o a0

C8_Witness ==
    /\ Executed
    /\ resolved
    /\ Len(WSTokens(cmd)[1]) = PATH_SIZE - 1 - Len(S_bin)
    /\ CStr(path) = S_bin \o WSTokens(cmd)[1]

\* C9: every handle a built-in has opened is closed exactly once when the
\* built-in has returned and never more than once; while cmd_ls or cmd_cat
\* runs, its handle is the only one open; a built-in that returns at once
\* (missing operand, failed open) opens and closes nothing.
C9_Inv ==
    /\ \A h \in 1..Len(handles) :
          handles[h].closes =
             (IF pc \in {"ls", "cat_read", "cat_write"} /\ h = fd THEN 0 ELSE 1)
    /\ pc = "ls" => handles[fd].kind = "dir"
    /\ pc \in {"cat_read", "cat_write"} => handles[fd].kind = "file"

C9_ScopedHandles ==
    /\ []C9_Inv
    /\ [][(pc = "exec" /\ pc' = "prompt") => handles' = handles]_vars

C9_Witness ==
    /\ pc = "prompt"
    /\ Len(handles) = 2
    /\ bytes_read = -1
    /\ handles[fd].kind = "file"
    /\ handles[fd].closes = 1

\* the file the cat in cmd has opened
CatOpened ==
    LET toks == WSTokens(cmd)
    IN  /\ Executed
        /\ Len(toks) >= 2
        /\ toks[1] = S_cat
        /\ FileExists(toks[2])

\* C10: what cmd_cat has written is at all times a prefix of the file, and is
\* all that has reached standard output while cmd_cat runs; on return it is
\* the whole file when the read loop ended at the end of the file, and
\* otherwise a read or write error has been reported after the prefix.
C10_CatFaithful ==
    CatOpened =>
       LET data == FileData(WSTokens(cmd)[2])
       IN  /\ IsPrefix(catOut, data)
           /\ pc \in {"cat_read", "cat_write"} => fdout = catOut /\ obuf = <<>>
           /\ pc = "cat_write" =>
                 /\ buf = SubSeq(data, handles[fd].pos - bytes_read + 1,
                                 handles[fd].pos)
                 /\ Len(catOut) = handles[fd].pos - bytes_read + bytes_written
           /\ (pc = "prompt" /\ bytes_read = 0) => catOut = data
           /\ (pc = "prompt" /\ bytes_read # 0) =>
                 /\ Printed = catOut \o <<NL, IF bytes_read < 0
                                              THEN "cat: read error: "
                                              ELSE "cat: write error: ">>
                                     \o Dec(Errno("read")) \o <<NL>>

C10_Witness ==
    /\ CatOpened
    /\ pc = "prompt"
    /\ Len(catOut) = BigLen
    /\ catOut = FileData(<<"g">>)

\* p occurs in text
Contains(text, p) ==
    \E i \in 1..(Len(text) - Len(p) + 1) : SubSeq(text, i, i + Len(p) - 1) = p

\* text is one line: it ends with its only newline
OneLine(text) ==
    /\ text # <<>>
    /\ \A i \in 1..Len(text) : text[i] = NL <=> i = Len(text)

\* the line in c is an ls of a directory opendir does not find, or a cat of
\* a file open does not find
OpenFails(c) ==
    LET toks == WSTokens(c)
    IN  /\ toks # <<>>
        /\ \/ toks[1] = S_ls /\ ~DirExists(IF Len(toks) >= 2 THEN toks[2] ELSE <<".">>)
           \/ toks[1] = S_cat /\ Len(toks) >= 2 /\ ~FileExists(toks[2])

\* the path that line gives the built-in
OpenPath(c) ==
    LET toks == WSTokens(c) IN IF Len(toks) >= 2 THEN toks[2] ELSE <<".">>

\* C11: when ls cannot open its directory or cat cannot open its file, the
\* command's whole output is one line that contains the path (no header, no
\* entry, no file byte), no handle is opened, read or closed, no read is made,
\* and the shell is back at the prompt, not terminated.
C11_OpenFailure ==
    [][(pc = "exec" /\ OpenFails(cmd)) =>
          /\ pc' = "prompt"
          /\ OneLine(Printed')
          /\ Contains(Printed', OpenPath(cmd))
          /\ handles' = handles
          /\ fd' = fd
          /\ bytes_read' = bytes_read
          /\ catOut' = <<>>
          /\ children' = children
          /\ exit_status' = exit_status]_vars

C11_Witness ==
    /\ Executed
    /\ pc = "prompt"
    /\ cmd = S_cat \o <<SP, "n">>
    /\ Len(handles) = 1
    /\ handles[1].closes = 1
    /\ Printed = <<"cat: cannot open '", "n", "': ", "2", NL>>

\* the command in cmd was an external command whose fork failed
ForkFailed == Executed /\ nfork = 1 /\ pid = -1

\* C12: when fork fails the command's whole output is the failure message,
\* the children of the shell are what they were (none is created, run or
\* waited for), and the shell goes on to the prompt and the next read; it
\* terminates only when that read returns NULL.
C12_ForkFailure ==
    /\ [](ForkFailed =>
             /\ pc \in {"prompt", "read", "terminated"}
             /\ pc = "prompt" => Printed = <<"fork failed", NL>>
             /\ pc = "terminated" => stdin_flag \in {"eof", "err"}
             /\ Unreclaimed = {})
    /\ [][(pc = "exec" /\ forkfails' # forkfails) =>
             /\ pid' = -1
             /\ children' = children
             /\ pc' = "prompt"
             /\ exit_status' = exit_status]_vars
    /\ [][(ForkFailed /\ pc = "prompt") => (pc' = "read" /\ children' = children)]_vars

C12_Witness ==
    /\ ForkFailed
    /\ pc = "read"
    /\ forkfails = 1
    /\ Len(children) = 1
    /\ children[1].st = "reaped"
    /\ children[1].waits = 1

\* C13, as stated: characters that follow the 255th of a line are never run
\* as a command of their own: when the characters in cmd were taken from
\* inside a line, execute_command has run no built-in and launched nothing.
C13_AsStated ==
    (Executed /\ cont) => (ran = <<>> /\ nfork = 0)

\* how often the prompt occurs in text
Prompts(text) == Cardinality({i \in 1..Len(text) : text[i] = "rux> "})

\* C14: whenever the shell is about to read standard input, nothing is held
\* in the output buffer, and what has been output since the previous read
\* (the banner before the first read, the output of the last command
\* otherwise) ends with the prompt, printed once.
C14_PromptFlushed ==
    pc = "read" =>
       /\ obuf = <<>>
       /\ EndsWith(fdout, <<"rux> ">>)
       /\ Prompts(fdout) = 1
       /\ ncmd = 0 => fdout = WelcomeText \o <<"rux> ">>

C14_Witness ==
    /\ pc = "read"
    /\ ~lbf
    /\ ncmd = 2
    /\ ran = <<"echo">>
    /\ fdout = <<"a", SP, "b", NL, "rux> ">>

\* the strings of ts with one space between each two
JoinSpace(ts) ==
    IF ts = <<>> THEN <<>>
    ELSE ts[1] \o Concat([i \in 1..(Len(ts) - 1) |-> <<SP>> \o ts[i + 1]])

\* the first token of the line in c is echo
EchoLine(c) ==
    LET toks == WSTokens(c) IN toks # <<>> /\ toks[1] = S_echo

\* the tokens stored after echo: those of the line up to the vector's capacity
EchoArgs(c) ==
    LET toks == WSTokens(c)
    IN  SubSeq(toks, 2, Min(Len(toks), MAX_ARGS - 1))

\* C15: for a line whose first token is echo, the command's whole output is
\* the stored tokens after echo joined by single spaces and one newline
\* (only the newline when there is none), whatever blanks the line has
\* before, between and after its tokens; no child is created, no handle is
\* opened, and the shell is back at the prompt.
C15_EchoOutput ==
    [][(pc = "exec" /\ EchoLine(cmd)) =>
          /\ Printed' = JoinSpace(EchoArgs(cmd)) \o <<NL>>
          /\ pc' = "prompt"
          /\ children' = children
          /\ launches' = launches
          /\ nfork' = 0
          /\ handles' = handles
          /\ exit_status' = exit_status]_vars

C15_Witness ==
    /\ Executed
    /\ pc = "prompt"
    /\ EchoLine(cmd)
    /\ cmd[1] = TAB
    /\ cmd[Len(cmd)] = SP
    /\ Len(WSTokens(cmd)) = MAX_ARGS + 1
    /\ Len(EchoArgs(cmd)) = MAX_ARGS - 2
    /\ Printed = JoinSpace(EchoArgs(cmd)) \o <<NL>>

\* the shell is in waitpid and its child has terminated
ChildTerminated == pc = "waitpid" /\ children[pid].st = "zombie"

\* C16: once the child of an external command has terminated (also one whose
\* execve failed and that exited with status 1), the shell returns from
\* waitpid and prints the next prompt; it leaves waitpid only for the prompt
\* and only when the child has terminated.
C16_ParentResumes ==
    /\ ChildTerminated ~> (pc = "read" /\ EndsWith(fdout, <<"rux> ">>))
    /\ [][pc = "waitpid" /\ pc' # "waitpid" =>
             ChildTerminated /\ pc' = "prompt" /\ children'[pid].st = "reaped"]_vars

C16_Witness ==
    /\ pc = "read"
    /\ nfork = 1
    /\ pid = 1
    /\ children[1].execfail
    /\ children[1].status = 1
    /\ children[1].st = "reaped"
    /\ EndsWith(fdout, <<"rux> ">>)

InCat == pc \in {"cat_read", "cat_write"}

\* what is left for cmd_cat to do: the bytes of the file not yet read, each
\* to be read and written, and the bytes of buf not yet written
CatLeft ==
    2 * (Len(FileData(handles[fd].name)) - handles[fd].pos)
       + (IF pc = "cat_write" THEN bytes_read - bytes_written ELSE 0)

\* C17: cmd_cat returns.  Every read and every write, whatever it returns,
\* ends cmd_cat or leaves less to do, never less than nothing, so both loops
\* finish; a read of zero bytes ends cmd_cat with the handle closed and no
\* message; and cmd_cat, once entered, gets back to the prompt.
C17_CatTerminates ==
    /\ InCat ~> (pc = "prompt")
    /\ [](InCat => CatLeft >= 0)
    /\ [][InCat => \/ pc' = "prompt" /\ handles'[fd].closes = 1
                   \/ InCat' /\ CatLeft' < CatLeft]_vars
    /\ [][(pc = "cat_read" /\ bytes_read' = 0) =>
             /\ pc' = "prompt"
             /\ handles'[fd].closes = 1
             /\ outVars' = outVars]_vars

C17_Witness ==
    /\ pc = "prompt"
    /\ cmd = S_cat \o <<SP, "g">>
    /\ Executed
    /\ bytes_read = 0
    /\ bytes_written = 1
    /\ handles[fd].pos = BigLen
    /\ handles[fd].closes = 1
    /\ Printed = catOut

\* C18, as stated: the path buffer handed to run_external holds a terminator
\* within its 256 bytes, and the bytes before it are the first bytes of the
\* token, or of "/bin/" followed by the token.
C18_AsStated ==
    (Executed /\ resolved) =>
       /\ Len(path) = PATH_SIZE
       /\ Terminated(path)
       /\ IsPrefix(CStr(path), SpecPath(WSTokens(cmd)[1]))

\* C19: when execute_command starts, and so when run_external forks, the
\* shell's output buffer is empty; a child therefore starts with an empty
\* copy, and all a child whose execve failed has output is its own failure
\* message: no text of the shell is output a second time by a child.
C19_NoDuplicate ==
    /\ pc \in {"exec", "waitpid"} => obuf = <<>>
    /\ \A p \in 1..Len(children) :
          LET c == children[p]
          IN  /\ c.st \in {"forked", "image"} => c.obuf = <<>> /\ c.out = <<>>
              /\ c.execfail =>
                    /\ c.obuf = <<>>
                    /\ c.out = <<"execve failed: ">> \o PathText(c.path) \o <<NL>>
                    /\ Prompts(c.out) = 0

C19_Witness ==
    /\ ~lbf
    /\ ncmd = 2
    /\ pc = "waitpid"
    /\ Len(children) = 1
    /\ children[1].st = "zombie"
    /\ children[1].out = <<"execve failed: ", "/", "b", "i", "n", "/", "p", NL>>

\* what is left of the input is a last line without its newline, of the at
\* most 255 characters a line may have
PartialLine(s) ==
    /\ s # <<>>
    /\ Len(s) <= MAX_CMD_LEN - 1
    /\ \A i \in 1..Len(s) : s[i] # NL

\* C20: a read that meets a last line without a newline (and does not fail)
\* hands the whole line to execute_command, which runs once for every line
\* read; the read that follows finds the input at its end and terminates the
\* shell with status 0; once fgets has returned NULL nothing is executed.
C20_FinalLine ==
    /\ [][(pc = "read" /\ PartialLine(stdin) /\ stdin_flag' = "ok") =>
             /\ pc' = "exec"
             /\ cmd' = stdin
             /\ stdin' = <<>>]_vars
    /\ [][pc = "exec" => (ncmd' = ncmd + 1 /\ pc' # "exec" /\ cmd' = cmd)]_vars
    /\ [][ncmd' # ncmd => pc = "exec"]_vars
    /\ [][(pc = "read" /\ stdin = <<>>) =>
             /\ pc' = "terminated"
             /\ stdin_flag' # "ok"
             /\ exit_status' = 0]_vars
    /\ [](stdin_flag # "ok" => pc = "terminated" /\ exit_status = 0)
    /\ [][stdin_flag # "ok" =>
             /\ pc' = "terminated"
             /\ stdin_flag' = stdin_flag
             /\ ncmd' = ncmd
             /\ children' = children
             /\ handles' = handles]_vars

C20_Witness ==
    /\ pc = "terminated"
    /\ stdin_flag = "eof"
    /\ midline
    /\ ~cont
    /\ ncmd = 2
    /\ cmd = S_echo \o <<SP, "a", SP, TAB, "b">>
    /\ ran = <<"echo">>
    /\ Printed = <<"a", SP, "b", NL, "rux> ">>
    /\ exit_status = 0

=============================================================================
